---- MODULE Spec2Model ----
(***************************************************************************)
(* JAT v2 - job application tracker.                                       *)
(*                                                                         *)
(* The model covers the storage engine (the applications table, its        *)
(* updated_at trigger and its row-level policies, reached through          *)
(* PostgREST), the data-access layer (getApplications ..                   *)
(* deleteApplication), and the entry points that call it (POST, PATCH,     *)
(* DELETE, createApplicationAction).                                       *)
(*                                                                         *)
(* Every handler issues at most one storage statement, and a statement is  *)
(* atomic in the engine, so a handler is one action whose effect on the    *)
(* table happens at its statement.  What the outside world decides during  *)
(* a handler (what each getUser call resolves to, which identity the       *)
(* statement's token carries, whether the engine call fails) is an input   *)
(* of the action.                                                          *)
(***************************************************************************)
EXTENDS Integers, Sequences, FiniteSets, TLC

(***************************************************************************)
(* Bounds of the model.                                                    *)
(***************************************************************************)
NumIds == 2      \* how many ids gen_random_uuid() hands out in a behaviour
MaxClock == 3    \* how many times now() advances in a behaviour

(***************************************************************************)
(* Values.  Every scalar is a string so that any two can be compared.      *)
(***************************************************************************)
NULL == "<null>"            \* SQL NULL, JS null
ABSENT == "<undefined>"     \* JS undefined: a key that is not there
NoSession == "<no-session>" \* a request without session cookies
Users == {"alice", "bob"}
Sessions == Users \cup {NoSession}

UuidOf(i) == "uuid-" \o ToString(i)
Ids == {UuidOf(i) : i \in 1..NumIds}
BadId == "not-a-uuid"
IdInputs == Ids \cup {BadId}

applicationStatuses == {"applied", "interviewing", "offer", "rejected", "withdrawn"}

VARIABLES
  applications,   \* the rows of table applications
  nextId,         \* index of the next value of gen_random_uuid()
  clock,          \* the engine's now()
  creator,        \* history: id -> identity whose request inserted the row
  last,           \* the request handled by the last step and its outcome
  calls           \* two invocations of updateApplication that may overlap

vars == <<applications, nextId, clock, creator, last, calls>>

(***************************************************************************)
(* The storage engine.                                                     *)
(***************************************************************************)

\* a table whose policies were created but never enabled
RlsNotEnabled == FALSE
\* ALTER TABLE applications ENABLE ROW LEVEL SECURITY
RlsEnabled == TRUE

\* auth.uid() = user_id.  auth.uid() is NULL for a statement without a user
\* token, and NULL = x is not true in SQL.
\* a policy that only asks for a signed-in caller: auth.uid() IS NOT NULL
AnyAuthenticated(uid, row) == uid # NULL
OwnerIsCaller(uid, row) == uid # NULL /\ uid = row.user_id

\* policies written USING (true) / WITH CHECK (true)
SelectUsingTrue(uid, row) == TRUE
InsertCheckTrue(uid, row) == TRUE
UpdateCheckTrue(uid, row) == TRUE
\* FOR SELECT USING (auth.uid() = user_id)
SelectPolicy(uid, row) == OwnerIsCaller(uid, row)
\* FOR INSERT WITH CHECK (auth.uid() = user_id)
InsertPolicy(uid, row) == OwnerIsCaller(uid, row)
\* FOR UPDATE USING (auth.uid() = user_id)
UpdateUsing(uid, row) == OwnerIsCaller(uid, row)
\* FOR UPDATE ... WITH CHECK (auth.uid() = user_id)
UpdateCheck(uid, row) == OwnerIsCaller(uid, row)
\* FOR DELETE USING (auth.uid() = user_id)
DeletePolicy(uid, row) == OwnerIsCaller(uid, row)

\* A policy binds only while row-level security is enabled on the table.
Allowed(rls, p) == rls => p

\* A filter is a set of conditions .eq(col, val) / .neq(col, val), all of
\* which a row has to meet; the empty filter matches every row.
Matches(row, filter) ==
  \A c \in filter : IF c.op = "eq" THEN row[c.col] = c.val ELSE row[c.col] # c.val

IdFilter(id) == {[col |-> "id", op |-> "eq", val |-> id]}

RlsViolation == "new row violates row-level security policy for table \"applications\""
NoRowsError == "JSON object requested, multiple (or no) rows returned"
NoFault == ""
EngineFaults == {"TypeError: fetch failed", "canceling statement due to statement timeout"}
Faults == EngineFaults \cup {NoFault}

\* error.message.toLowerCase().includes(needle), for the messages above
MsgContains ==
  { <<"TypeError: fetch failed", "fetch">>,
    <<"canceling statement due to statement timeout", "timeout">>,
    <<"null value in column violates not-null constraint", "violates">>,
    <<RlsViolation, "violates">> }
MsgIncludes(m, needle) == <<m, needle>> \in MsgContains

\* The engine's state as one value, and a statement's reply together with
\* the state it leaves.
Store == [apps |-> applications, nid |-> nextId, clk |-> clock]
Reply(rows, err, S) == [rows |-> rows, error |-> err, S |-> S]

\* A statement as the client sends it.  returning: it asks for the rows it
\* touched (PostgREST's .select() after insert, update or delete).
Statement(kind, filter, vals, returning) ==
  [kind |-> kind, filter |-> filter, vals |-> vals, returning |-> returning]
NoVals == [c \in {} |-> NULL]

\* PostgreSQL applies the SELECT policy to a row an insert, update or delete
\* has to read: when the statement has a WHERE clause or returns rows.
ReadsRows(stmt) == stmt.returning \/ stmt.filter # {}
Readable(rls, uid, stmt, row) == ReadsRows(stmt) => Allowed(rls, SelectPolicy(uid, row))

\* SELECT * FROM applications WHERE filter, under the SELECT policy
EngineSelect(rls, uid, stmt, S) ==
  Reply({r \in S.apps : Matches(r, stmt.filter) /\ Allowed(rls, SelectPolicy(uid, r))},
        NoFault, S)

\* the dates the engine's DATE type accepts, among the modelled ones
EngineDates == {"2026-01-10", "2026-02-11"}

\* an enum type that lacks one of the labels the application uses
application_statusWithoutInterviewing ==
  {"applied", "offer", "rejected", "withdrawn"}

\* CREATE TYPE application_status AS ENUM (...)
application_status ==
  {"applied", "interviewing", "offer", "rejected", "withdrawn"}

\* NOT NULL, the application_status enum and the DATE type of CREATE TABLE
ConstraintError(row) ==
  IF \E c \in {"user_id", "company_name", "position_title", "status", "application_date"} :
       row[c] = NULL
  THEN "null value in column violates not-null constraint"
  ELSE IF row.status \notin application_status
  THEN "invalid input value for enum application_status"
  ELSE IF row.application_date \notin EngineDates
  THEN "date/time field value out of range"
  ELSE NoFault

\* a column the statement does not name takes its DEFAULT (NULL without one)
OrDefault(v, d) == IF v = ABSENT THEN d ELSE v

\* INSERT whose id default is the lowest id no row holds, not a fresh one
EngineInsertLowestFreeId(rls, uid, stmt, S) ==
  LET vals == stmt.vals
      free == {i \in 1..S.nid : \A r \in S.apps : r.id # UuidOf(i)}
      row == [id |-> UuidOf(CHOOSE i \in free : \A j \in free : i <= j),
              user_id |-> OrDefault(vals.user_id, NULL),
              company_name |-> OrDefault(vals.company_name, NULL),
              position_title |-> OrDefault(vals.position_title, NULL),
              status |-> OrDefault(vals.status, "applied"),
              application_date |-> OrDefault(vals.application_date, NULL),
              notes |-> OrDefault(vals.notes, NULL),
              created_at |-> S.clk + 1,
              updated_at |-> S.clk + 1]
  IN IF ConstraintError(row) # NoFault THEN Reply({}, ConstraintError(row), S)
     ELSE IF Allowed(rls, InsertPolicy(uid, row)) /\ Readable(rls, uid, stmt, row)
     THEN Reply(IF stmt.returning THEN {row} ELSE {}, NoFault,
                [apps |-> S.apps \cup {row}, nid |-> S.nid + 1, clk |-> S.clk + 1])
     ELSE Reply({}, RlsViolation, S)

\* INSERT [RETURNING *]: id, created_at and updated_at take their defaults,
\* every other column comes from the statement
EngineInsert(rls, uid, stmt, S) ==
  LET vals == stmt.vals
      row == [id |-> UuidOf(S.nid),
              user_id |-> OrDefault(vals.user_id, NULL),
              company_name |-> OrDefault(vals.company_name, NULL),
              position_title |-> OrDefault(vals.position_title, NULL),
              status |-> OrDefault(vals.status, "applied"),
              application_date |-> OrDefault(vals.application_date, NULL),
              notes |-> OrDefault(vals.notes, NULL),
              created_at |-> S.clk + 1,
              updated_at |-> S.clk + 1]
  IN IF ConstraintError(row) # NoFault THEN Reply({}, ConstraintError(row), S)
     ELSE IF Allowed(rls, InsertPolicy(uid, row)) /\ Readable(rls, uid, stmt, row)
     THEN Reply(IF stmt.returning THEN {row} ELSE {}, NoFault,
                [apps |-> S.apps \cup {row}, nid |-> S.nid + 1, clk |-> S.clk + 1])
     ELSE Reply({}, RlsViolation, S)

\* a trigger function that stamps created_at along with updated_at
UpdatedStampsBoth(row, vals, now) ==
  [c \in DOMAIN row |->
     IF c \in {"created_at", "updated_at"} THEN now
     ELSE IF c \in DOMAIN vals THEN vals[c] ELSE row[c]]

\* an update on a table whose BEFORE UPDATE trigger was not created
UpdatedWithoutTrigger(row, vals, now) ==
  [c \in DOMAIN row |-> IF c \in DOMAIN vals THEN vals[c] ELSE row[c]]

\* one row after SET vals, with the BEFORE UPDATE trigger's updated_at = now()
Updated(row, vals, now) ==
  [c \in DOMAIN row |->
     IF c = "updated_at" THEN now
     ELSE IF c \in DOMAIN vals THEN vals[c] ELSE row[c]]

\* UPDATE applications SET vals WHERE filter [RETURNING *].  PostgREST turns
\* an update without columns into a query that selects no row.
EngineUpdate(rls, uid, stmt, S) ==
  LET targets == {r \in S.apps : /\ Matches(r, stmt.filter)
                                  /\ Allowed(rls, UpdateUsing(uid, r))
                                  /\ Readable(rls, uid, stmt, r)}
      new == {Updated(r, stmt.vals, S.clk + 1) : r \in targets}
  IN IF DOMAIN stmt.vals = {} \/ targets = {} THEN Reply({}, NoFault, S)
     ELSE IF \E n \in new : ConstraintError(n) # NoFault
     THEN Reply({}, ConstraintError(CHOOSE n \in new : ConstraintError(n) # NoFault), S)
     ELSE IF \E n \in new : ~(Allowed(rls, UpdateCheck(uid, n)) /\ Readable(rls, uid, stmt, n))
     THEN Reply({}, RlsViolation, S)
     ELSE Reply(IF stmt.returning THEN new ELSE {}, NoFault,
                [apps |-> (S.apps \ targets) \cup new, nid |-> S.nid, clk |-> S.clk + 1])

\* DELETE FROM applications WHERE filter [RETURNING *]
EngineDelete(rls, uid, stmt, S) ==
  LET targets == {r \in S.apps : /\ Matches(r, stmt.filter)
                                  /\ Allowed(rls, DeletePolicy(uid, r))
                                  /\ Readable(rls, uid, stmt, r)}
  IN Reply(IF stmt.returning THEN targets ELSE {}, NoFault,
           [apps |-> S.apps \ targets, nid |-> S.nid, clk |-> S.clk])

\* a client made with the service-role key: its statements bypass the
\* row-level policies
ExecuteAsServiceRole(rls, stmt, env, S) ==
  IF env.fault # NoFault THEN Reply({}, env.fault, S)
  ELSE CASE stmt.kind = "select" -> EngineSelect(FALSE, env.uid, stmt, S)
         [] stmt.kind = "insert" -> EngineInsert(FALSE, env.uid, stmt, S)
         [] stmt.kind = "update" -> EngineUpdate(FALSE, env.uid, stmt, S)
         [] stmt.kind = "delete" -> EngineDelete(FALSE, env.uid, stmt, S)

\* The execution of a statement.  env.uid is auth.uid() of the token the
\* statement carries; env.fault is a failure of the call itself (network,
\* timeout), and then the statement does not run.
Execute(rls, stmt, env, S) ==
  IF env.fault # NoFault THEN Reply({}, env.fault, S)
  ELSE CASE stmt.kind = "select" -> EngineSelect(rls, env.uid, stmt, S)
         [] stmt.kind = "insert" -> EngineInsert(rls, env.uid, stmt, S)
         [] stmt.kind = "update" -> EngineUpdate(rls, env.uid, stmt, S)
         [] stmt.kind = "delete" -> EngineDelete(rls, env.uid, stmt, S)

\* .order('created_at'): ascending, the default
RECURSIVE OrderAsc(_)
OrderAsc(rows) ==
  IF rows = {} THEN <<>>
  ELSE LET low == CHOOSE r \in rows : \A q \in rows : r.created_at <= q.created_at
       IN <<low>> \o OrderAsc(rows \ {low})

\* .order('created_at', { ascending: false })
RECURSIVE OrderDesc(_)
OrderDesc(rows) ==
  IF rows = {} THEN <<>>
  ELSE LET top == CHOOSE r \in rows : \A q \in rows : q.created_at <= r.created_at
       IN <<top>> \o OrderDesc(rows \ {top})

SetToSeq(rows) == OrderDesc(rows)

\* .single(): exactly one row or an error
Single(reply) ==
  IF reply.error # NoFault THEN [data |-> <<>>, error |-> reply.error]
  ELSE IF Cardinality(reply.rows) = 1 THEN [data |-> SetToSeq(reply.rows), error |-> NoFault]
  ELSE [data |-> <<>>, error |-> NoRowsError]

\* .maybeSingle(): one row, or null when there is none
MaybeSingle(reply) ==
  IF reply.error # NoFault THEN [data |-> <<>>, error |-> reply.error]
  ELSE IF Cardinality(reply.rows) <= 1 THEN [data |-> SetToSeq(reply.rows), error |-> NoFault]
  ELSE [data |-> <<>>, error |-> NoRowsError]

(***************************************************************************)
(* Identity resolution.                                                    *)
(***************************************************************************)

\* supabase.auth.getUser(): { data: { user }, error }
GotUser(u) == [user |-> u, error |-> ""]
NoUser == [user |-> NULL, error |-> ""]
AuthError == [user |-> NULL, error |-> "Auth session missing!"]

\* what a getUser call of a request with session sess can resolve to: the
\* session's user, or nothing once the session is absent, expired or revoked
Resolve(sess) == IF sess = NoSession THEN {NoUser, AuthError}
                 ELSE {GotUser(sess), NoUser, AuthError}

\* createClient() or the awaited getUser() throws instead of returning
ClientThrows == [user |-> NULL, error |-> "<createClient throws>"]
GetUserThrows == [user |-> NULL, error |-> "<getUser throws>"]
Throws(gu) == gu \in {ClientThrows, GetUserThrows}

\* the awaited storage call throws instead of returning { data, error }
StorageThrows == "<storage call throws>"

\* if (authError || !user)
AuthFailed(gu) == gu.error # "" \/ gu.user = NULL

\* the conditions under which the statement of a data-access call runs:
\* auth.uid() of the token it carries, and whether the call fails
Envs(sess, gu) ==
  IF AuthFailed(gu) THEN {[uid |-> NULL, fault |-> NoFault]}
  ELSE {[uid |-> sess, fault |-> f] : f \in Faults} \cup {[uid |-> NULL, fault |-> NoFault]}

(***************************************************************************)
(* The data-access layer.  Each function is an operator from its           *)
(* arguments, the result gu of its getUser call, the conditions env under  *)
(* which its statement runs and the engine state S to: its DataResult, the *)
(* statements it issued and the engine state it leaves.                    *)
(***************************************************************************)

\* String.prototype.trim, on the modelled strings
Trim(s) == CASE s = " " -> ""
             [] s = " Acme " -> "Acme"
             [] OTHER -> s

\* UUID_RE.test: the uuid-shaped strings of the model are the engine's ids
IsUuid(s) == s \in Ids

\* DataResult<T>; data is a sequence so that null is <<>>
NoError == [msg |-> "", args |-> <<>>]
Ok(data) == [success |-> TRUE, error |-> NoError, data |-> data]
Fail(msg) == [success |-> FALSE, error |-> [msg |-> msg, args |-> <<>>], data |-> <<>>]
FailWith(msg, arg) == [success |-> FALSE, error |-> [msg |-> msg, args |-> <<arg>>], data |-> <<>>]

Done(res, stmts, S) == [res |-> res, stmts |-> stmts, S |-> S]

\* an exception that leaves the function instead of a DataResult
Uncaught(e) == [thrown |-> e]

\* a catch block that rethrows
CatchRethrows(e, msg, stmts, S) == Done(Uncaught(e), stmts, S)

\* try { ... } catch (error) { return { success: false, error: msg } }
Catch(e, msg, stmts, S) == Done(Fail(msg), stmts, S)

NotAuthenticated == "User not authenticated"
InvalidId == "Invalid application ID"

\* the ternary chains that turn an engine message into a user message
FriendlyError(m, withViolates, fallback) ==
  IF MsgIncludes(m, "network") \/ MsgIncludes(m, "fetch")
  THEN "Network error. Please check your internet connection."
  ELSE IF MsgIncludes(m, "timeout") THEN "Request timed out. Please try again."
  ELSE IF withViolates /\ MsgIncludes(m, "violates")
  THEN "Invalid data. Please check your input."
  ELSE fallback

\* getApplications that sends its statement again when the first attempt
\* fails
getApplicationsRetrying(gu, env, S) ==
  IF AuthFailed(gu) THEN Done(Fail(NotAuthenticated), <<>>, S)
  ELSE LET stmt == Statement("select", {}, NoVals, TRUE)
           reply == Execute(RlsEnabled, stmt, env, S)
       IN IF reply.error # NoFault
          THEN Done(Fail(FriendlyError(reply.error, FALSE,
                      "Unable to load applications. Please try again.")),
                    <<stmt, stmt>>, reply.S)
          ELSE Done(Ok(OrderDesc(reply.rows)), <<stmt>>, reply.S)

getApplications(gu, env, S) ==
  IF Throws(gu) THEN Catch(gu.error, "An unexpected error occurred while fetching applications", <<>>, S) ELSE
  IF AuthFailed(gu) THEN Done(Fail(NotAuthenticated), <<>>, S)
  ELSE LET stmt == Statement("select", {}, NoVals, TRUE)
           reply == Execute(RlsEnabled, stmt, env, S)
       IN IF env.fault = StorageThrows
          THEN Catch(StorageThrows, "An unexpected error occurred while fetching applications",
                     <<stmt>>, S)
          ELSE IF reply.error # NoFault
          THEN Done(Fail(FriendlyError(reply.error, FALSE,
                      "Unable to load applications. Please try again.")),
                    <<stmt>>, reply.S)
          ELSE Done(Ok(OrderDesc(reply.rows)), <<stmt>>, reply.S)

getApplicationById(id, gu, env, S) ==
  IF Throws(gu) THEN Catch(gu.error, "An unexpected error occurred while fetching the application", <<>>, S) ELSE
  IF AuthFailed(gu) THEN Done(Fail(NotAuthenticated), <<>>, S)
  ELSE LET applicationId == Trim(id) IN
    IF applicationId = "" \/ ~IsUuid(applicationId) THEN Done(Fail(InvalidId), <<>>, S)
    ELSE LET stmt == Statement("select", IdFilter(applicationId), NoVals, TRUE)
             reply == Execute(RlsEnabled, stmt, env, S)
             one == MaybeSingle(reply)
         IN IF env.fault = StorageThrows
            THEN Catch(StorageThrows, "An unexpected error occurred while fetching the application",
                       <<stmt>>, S)
            ELSE IF one.error # NoFault
            THEN Done(FailWith("Failed to fetch application: ", one.error), <<stmt>>, reply.S)
            ELSE Done(Ok(one.data), <<stmt>>, reply.S)

\* data.notes ?? null
OrNull(v) == IF v \in {ABSENT, NULL} THEN NULL ELSE v

\* createApplication with the payload spread over the row: a user_id in the
\* payload replaces the one taken from the session
createApplicationSpread(data, gu, env, S) ==
  IF AuthFailed(gu) THEN Done(Fail(NotAuthenticated), <<>>, S)
  ELSE LET stmt == Statement("insert", {},
                     [user_id |-> IF "user_id" \in DOMAIN data /\ data.user_id # ABSENT
                                  THEN data.user_id ELSE gu.user,
                      company_name |-> data.company_name,
                      position_title |-> data.position_title,
                      application_date |-> data.application_date,
                      status |-> data.status,
                      notes |-> OrNull(data.notes)], TRUE)
           reply == Execute(RlsEnabled, stmt, env, S)
           one == Single(reply)
       IN IF one.error # NoFault
          THEN Done(Fail(FriendlyError(one.error, TRUE,
                      "Unable to create application. Please try again.")),
                    <<stmt>>, reply.S)
          ELSE Done(Ok(one.data), <<stmt>>, reply.S)

\* createApplication that leaves notes out of the insert
createApplicationWithoutNotes(data, gu, env, S) ==
  IF AuthFailed(gu) THEN Done(Fail(NotAuthenticated), <<>>, S)
  ELSE LET stmt == Statement("insert", {},
                     [user_id |-> gu.user,
                      company_name |-> data.company_name,
                      position_title |-> data.position_title,
                      application_date |-> data.application_date,
                      status |-> data.status,
                      notes |-> ABSENT], TRUE)
           reply == Execute(RlsEnabled, stmt, env, S)
           one == Single(reply)
       IN IF one.error # NoFault
          THEN Done(Fail(FriendlyError(one.error, TRUE,
                      "Unable to create application. Please try again.")),
                    <<stmt>>, reply.S)
          ELSE Done(Ok(one.data), <<stmt>>, reply.S)

createApplication(data, gu, env, S) ==
  IF Throws(gu) THEN Catch(gu.error, "An unexpected error occurred while creating the application", <<>>, S) ELSE
  IF AuthFailed(gu) THEN Done(Fail(NotAuthenticated), <<>>, S)
  ELSE LET stmt == Statement("insert", {},
                     [user_id |-> gu.user,
                      company_name |-> data.company_name,
                      position_title |-> data.position_title,
                      application_date |-> data.application_date,
                      status |-> data.status,
                      notes |-> OrNull(data.notes)], TRUE)
           reply == Execute(RlsEnabled, stmt, env, S)
           one == Single(reply)
       IN IF env.fault = StorageThrows
          THEN Catch(StorageThrows, "An unexpected error occurred while creating the application",
                     <<stmt>>, S)
          ELSE IF one.error # NoFault
          THEN Done(Fail(FriendlyError(one.error, TRUE,
                      "Unable to create application. Please try again.")),
                    <<stmt>>, reply.S)
          ELSE Done(Ok(one.data), <<stmt>>, reply.S)

UpdatableColumns == {"company_name", "position_title", "application_date", "status", "notes"}

\* ...(data.c !== undefined && { c: data.c }) for the five columns
Supplied(data) ==
  LET cols == {c \in UpdatableColumns \cap DOMAIN data : data[c] # ABSENT}
  IN [c \in cols |-> data[c]]

\* updateApplication that writes notes as createApplication does
\* (notes: data.notes ?? null), whether or not notes was supplied
updateApplicationNotesDefault(id, data, gu, env, S) ==
  IF AuthFailed(gu) THEN Done(Fail(NotAuthenticated), <<>>, S)
  ELSE LET applicationId == Trim(id) IN
    IF applicationId = "" \/ ~IsUuid(applicationId) THEN Done(Fail(InvalidId), <<>>, S)
    ELSE LET vals == [c \in DOMAIN Supplied(data) \cup {"notes"} |->
                       IF c = "notes" THEN OrNull(data.notes) ELSE data[c]]
             stmt == Statement("update", IdFilter(applicationId), vals, TRUE)
             reply == Execute(RlsEnabled, stmt, env, S)
             one == Single(reply)
         IN IF one.error # NoFault
            THEN Done(Fail(FriendlyError(one.error, TRUE,
                        "Unable to update application. Please try again.")),
                      <<stmt>>, reply.S)
            ELSE IF one.data = <<>>
            THEN Done(Fail("Application not found or access denied"), <<stmt>>, reply.S)
            ELSE Done(Ok(one.data), <<stmt>>, reply.S)

updateApplication(id, data, gu, env, S) ==
  IF Throws(gu) THEN Catch(gu.error, "An unexpected error occurred while updating the application", <<>>, S) ELSE
  IF AuthFailed(gu) THEN Done(Fail(NotAuthenticated), <<>>, S)
  ELSE LET applicationId == Trim(id) IN
    IF applicationId = "" \/ ~IsUuid(applicationId) THEN Done(Fail(InvalidId), <<>>, S)
    ELSE LET stmt == Statement("update", IdFilter(applicationId), Supplied(data), TRUE)
             reply == Execute(RlsEnabled, stmt, env, S)
             one == Single(reply)
         IN IF env.fault = StorageThrows
            THEN Catch(StorageThrows, "An unexpected error occurred while updating the application",
                       <<stmt>>, S)
            ELSE IF one.error # NoFault
            THEN Done(Fail(FriendlyError(one.error, TRUE,
                        "Unable to update application. Please try again.")),
                      <<stmt>>, reply.S)
            ELSE IF one.data = <<>>
            THEN Done(Fail("Application not found or access denied"), <<stmt>>, reply.S)
            ELSE Done(Ok(one.data), <<stmt>>, reply.S)

\* deleteApplication without its getUser check
deleteApplicationUnchecked(id, gu, env, S) ==
  LET applicationId == Trim(id) IN
    IF applicationId = "" \/ ~IsUuid(applicationId) THEN Done(Fail(InvalidId), <<>>, S)
    ELSE LET stmt == Statement("delete", IdFilter(applicationId), NoVals, TRUE)
             reply == Execute(RlsEnabled, stmt, env, S)
         IN IF reply.error # NoFault
            THEN Done(Fail(FriendlyError(reply.error, FALSE,
                        "Unable to delete application. Please try again.")),
                      <<stmt>>, reply.S)
            ELSE IF reply.rows = {}
            THEN Done(FailWith("Application not found or access denied: ", applicationId),
                      <<stmt>>, reply.S)
            ELSE Done(Ok(<<[id |-> applicationId]>>), <<stmt>>, reply.S)

\* deleteApplication whose statement lacks .select(): no row comes back
deleteApplicationNoSelect(id, gu, env, S) ==
  IF AuthFailed(gu) THEN Done(Fail(NotAuthenticated), <<>>, S)
  ELSE LET applicationId == Trim(id) IN
    IF applicationId = "" \/ ~IsUuid(applicationId) THEN Done(Fail(InvalidId), <<>>, S)
    ELSE LET stmt == Statement("delete", IdFilter(applicationId), NoVals, FALSE)
             reply == Execute(RlsEnabled, stmt, env, S)
         IN IF reply.error # NoFault
            THEN Done(Fail(FriendlyError(reply.error, FALSE,
                        "Unable to delete application. Please try again.")),
                      <<stmt>>, reply.S)
            ELSE IF reply.rows = {}
            THEN Done(FailWith("Application not found or access denied: ", applicationId),
                      <<stmt>>, reply.S)
            ELSE Done(Ok(<<[id |-> applicationId]>>), <<stmt>>, reply.S)

deleteApplication(id, gu, env, S) ==
  IF Throws(gu) THEN Catch(gu.error, "An unexpected error occurred while deleting the application", <<>>, S) ELSE
  IF AuthFailed(gu) THEN Done(Fail(NotAuthenticated), <<>>, S)
  ELSE LET applicationId == Trim(id) IN
    IF applicationId = "" \/ ~IsUuid(applicationId) THEN Done(Fail(InvalidId), <<>>, S)
    ELSE LET stmt == Statement("delete", IdFilter(applicationId), NoVals, TRUE)
             reply == Execute(RlsEnabled, stmt, env, S)
         IN IF env.fault = StorageThrows
            THEN Catch(StorageThrows, "An unexpected error occurred while deleting the application",
                       <<stmt>>, S)
            ELSE IF reply.error # NoFault
            THEN Done(Fail(FriendlyError(reply.error, FALSE,
                        "Unable to delete application. Please try again.")),
                      <<stmt>>, reply.S)
            ELSE IF reply.rows = {}
            THEN Done(FailWith("Application not found or access denied: ", applicationId),
                      <<stmt>>, reply.S)
            ELSE Done(Ok(<<[id |-> applicationId]>>), <<stmt>>, reply.S)

(***************************************************************************)
(* Validation (the Zod schemas).  A raw input is a record of the keys a    *)
(* caller may send; a key that is not sent is ABSENT.  user_id and id are  *)
(* keys the schemas do not declare.                                        *)
(***************************************************************************)

MaxNameLen == 200
MaxNotesLen == 2000

Raw(cn, pt, ad, st, no, uid, id) ==
  [malformed |-> FALSE, company_name |-> cn, position_title |-> pt,
   application_date |-> ad, status |-> st, notes |-> no, user_id |-> uid, id |-> id]
\* a request body that is not JSON
Malformed == [Raw(ABSENT, ABSENT, ABSENT, ABSENT, ABSENT, ABSENT, ABSENT) EXCEPT !.malformed = TRUE]
RawKeys == {"company_name", "position_title", "application_date", "status", "notes", "user_id", "id"}

Issue(path, message) == [path |-> path, message |-> message]
Parsed(value, issues) == [value |-> value, issues |-> issues]

\* z.string(): undefined and null are not strings
ZodString(v, path) ==
  IF v = ABSENT THEN <<Issue(path, "Required")>>
  ELSE IF v = NULL THEN <<Issue(path, "Expected string, received null")>>
  ELSE <<>>

\* z.string().max(MaxNameLen, maxMsg).trim(), the .min(1) left out
ZodNameWithoutMin(v, path, minMsg, maxMsg) ==
  IF ZodString(v, path) # <<>> THEN Parsed(ABSENT, ZodString(v, path))
  ELSE Parsed(Trim(v),
              IF Len(v) > MaxNameLen THEN <<Issue(path, maxMsg)>> ELSE <<>>)

\* z.string().min(1, minMsg).max(MaxNameLen, maxMsg).trim(): the checks run in
\* the order they are chained, so the lengths are those of the untrimmed input
ZodName(v, path, minMsg, maxMsg) ==
  IF ZodString(v, path) # <<>> THEN Parsed(ABSENT, ZodString(v, path))
  ELSE Parsed(Trim(v),
              (IF Len(v) < 1 THEN <<Issue(path, minMsg)>> ELSE <<>>)
              \o (IF Len(v) > MaxNameLen THEN <<Issue(path, maxMsg)>> ELSE <<>>))

\* /^\d{4}-\d{2}-\d{2}$/ and !isNaN(new Date(date).getTime()), on the modelled dates
DateShaped == {"2026-01-10", "2026-02-11", "2026-13-45"}
DateParses == {"2026-01-10", "2026-02-11", "01/10/2026"}
ZodDate(v, path) ==
  IF ZodString(v, path) # <<>> THEN Parsed(ABSENT, ZodString(v, path))
  ELSE Parsed(v,
              (IF v \notin DateShaped
               THEN <<Issue(path, "Date must be in YYYY-MM-DD format")>> ELSE <<>>)
              \o (IF v \notin DateParses THEN <<Issue(path, "Invalid date")>> ELSE <<>>))

\* z.enum(applicationStatuses, { errorMap })
ZodStatus(v, path) ==
  IF v \in applicationStatuses THEN Parsed(v, <<>>)
  ELSE Parsed(ABSENT, <<Issue(path, "Invalid status value")>>)

\* .optional() in front of a schema: undefined passes as undefined
ZodOptional(v, parsed) == IF v = ABSENT THEN Parsed(ABSENT, <<>>) ELSE parsed

\* (val) => val && val.trim() === '' ? null : val
NotesTransform(val) ==
  IF val \notin {ABSENT, NULL, ""} /\ Trim(val) = "" THEN NULL ELSE val

\* z.string().max(MaxNotesLen, ..).optional().transform(..)
ZodNotes(v, path) ==
  IF v = ABSENT THEN Parsed(NotesTransform(ABSENT), <<>>)
  ELSE IF ZodString(v, path) # <<>> THEN Parsed(ABSENT, ZodString(v, path))
  ELSE IF Len(v) > MaxNotesLen
  THEN Parsed(ABSENT, <<Issue(path, "Notes must be less than 2000 characters")>>)
  ELSE Parsed(NotesTransform(v), <<>>)

\* z.object(shape): the declared keys in order, undeclared keys stripped
ZodObject(cn, pt, ad, st, no) ==
  [data |-> [company_name |-> cn.value, position_title |-> pt.value,
             application_date |-> ad.value, status |-> st.value, notes |-> no.value],
   issues |-> cn.issues \o pt.issues \o ad.issues \o st.issues \o no.issues]

createApplicationSchema(raw) ==
  ZodObject(
    ZodName(raw.company_name, "company_name", "Company name is required",
            "Company name must be less than 200 characters"),
    ZodName(raw.position_title, "position_title", "Position title is required",
            "Position title must be less than 200 characters"),
    ZodDate(raw.application_date, "application_date"),
    ZodStatus(raw.status, "status"),
    ZodNotes(raw.notes, "notes"))

\* updateApplicationSchema made .strict(): an undeclared key is an issue
updateApplicationSchemaStrict(raw) ==
  LET v == ZodObject(
        ZodOptional(raw.company_name,
          ZodName(raw.company_name, "company_name", "Company name cannot be empty",
                  "Company name must be less than 200 characters")),
        ZodOptional(raw.position_title,
          ZodName(raw.position_title, "position_title", "Position title cannot be empty",
                  "Position title must be less than 200 characters")),
        ZodOptional(raw.application_date, ZodDate(raw.application_date, "application_date")),
        ZodOptional(raw.status, ZodStatus(raw.status, "status")),
        ZodNotes(raw.notes, "notes"))
  IN IF raw.user_id # ABSENT \/ raw.id # ABSENT
     THEN [v EXCEPT !.issues = @ \o <<Issue("", "Unrecognized key(s) in object")>>]
     ELSE v

updateApplicationSchema(raw) ==
  ZodObject(
    ZodOptional(raw.company_name,
      ZodName(raw.company_name, "company_name", "Company name cannot be empty",
              "Company name must be less than 200 characters")),
    ZodOptional(raw.position_title,
      ZodName(raw.position_title, "position_title", "Position title cannot be empty",
              "Position title must be less than 200 characters")),
    ZodOptional(raw.application_date, ZodDate(raw.application_date, "application_date")),
    ZodOptional(raw.status, ZodStatus(raw.status, "status")),
    ZodNotes(raw.notes, "notes"))

(***************************************************************************)
(* The entry points.  Each is an operator from the request, the result of  *)
(* its own getUser call (gu1), that of the data-access call (gu2), the     *)
(* statement's conditions env and the engine state to: its response, the   *)
(* DataResult it got (if it called the data-access layer), the statements  *)
(* issued and the engine state it leaves.                                  *)
(***************************************************************************)

\* NextResponse.json({ error, details, data }, { status }); for the server
\* action status is 0, and redirect is the target of redirect()
Response(status, error, data, details, redirect) ==
  [status |-> status, error |-> error, data |-> data, details |-> details,
   redirect |-> redirect]
Json(status, msg) == Response(status, [msg |-> msg, args |-> <<>>], <<>>, <<>>, "")

Answer(http, dal, stmts, S) == [http |-> http, dal |-> dal, stmts |-> stmts, S |-> S]

\* result.error.includes('not found') || result.error.includes('access denied')
ErrContains ==
  { <<"Application not found or access denied", "not found">>,
    <<"Application not found or access denied", "access denied">>,
    <<"Application not found or access denied: ", "not found">>,
    <<"Application not found or access denied: ", "access denied">> }
ErrIncludes(e, needle) == <<e.msg, needle>> \in ErrContains

POST(raw, gu1, gu2, env, S) ==
  IF AuthFailed(gu1) THEN Answer(Json(401, "Unauthorized"), <<>>, <<>>, S)
  ELSE IF raw.malformed THEN Answer(Json(400, "Invalid JSON"), <<>>, <<>>, S)
  ELSE LET v == createApplicationSchema(raw) IN
    IF v.issues # <<>>
    THEN Answer(Response(400, [msg |-> "Validation failed", args |-> <<>>], <<>>, v.issues, ""),
                <<>>, <<>>, S)
    ELSE LET d == createApplication([v.data EXCEPT !.notes = OrNull(v.data.notes)], gu2, env, S)
         IN IF ~d.res.success
            THEN Answer(Response(500, d.res.error, <<>>, <<>>, ""), <<d.res>>, d.stmts, d.S)
            ELSE Answer(Response(201, NoError, d.res.data, <<>>, ""), <<d.res>>, d.stmts, d.S)

NotFoundOr500(res) ==
  IF ErrIncludes(res.error, "not found") \/ ErrIncludes(res.error, "access denied")
  THEN Json(404, "Application not found")
  ELSE Response(500, res.error, <<>>, <<>>, "")

\* PATCH with the body parsed and validated ahead of the getUser check
PATCHValidateFirst(id, raw, gu1, gu2, env, S) ==
  IF raw.malformed THEN Answer(Json(400, "Invalid JSON"), <<>>, <<>>, S)
  ELSE IF \A k \in RawKeys : raw[k] = ABSENT
  THEN Answer(Json(400, "No fields to update"), <<>>, <<>>, S)
  ELSE LET v == updateApplicationSchema(raw) IN
    IF v.issues # <<>>
    THEN Answer(Response(400, [msg |-> "Validation failed", args |-> <<>>], <<>>, v.issues, ""),
                <<>>, <<>>, S)
    ELSE IF AuthFailed(gu1) THEN Answer(Json(401, "Unauthorized"), <<>>, <<>>, S)
    ELSE IF id = "" THEN Answer(Json(400, "Application ID is required"), <<>>, <<>>, S)
    ELSE LET d == updateApplication(id, v.data, gu2, env, S)
         IN IF ~d.res.success
            THEN Answer(NotFoundOr500(d.res), <<d.res>>, d.stmts, d.S)
            ELSE Answer(Response(200, NoError, d.res.data, <<>>, ""), <<d.res>>, d.stmts, d.S)

PATCH(id, raw, gu1, gu2, env, S) ==
  IF AuthFailed(gu1) THEN Answer(Json(401, "Unauthorized"), <<>>, <<>>, S)
  ELSE IF id = "" THEN Answer(Json(400, "Application ID is required"), <<>>, <<>>, S)
  ELSE IF raw.malformed THEN Answer(Json(400, "Invalid JSON"), <<>>, <<>>, S)
  ELSE IF \A k \in RawKeys : raw[k] = ABSENT
  THEN Answer(Json(400, "No fields to update"), <<>>, <<>>, S)
  ELSE LET v == updateApplicationSchema(raw) IN
    IF v.issues # <<>>
    THEN Answer(Response(400, [msg |-> "Validation failed", args |-> <<>>], <<>>, v.issues, ""),
                <<>>, <<>>, S)
    ELSE LET d == updateApplication(id, v.data, gu2, env, S)
         IN IF ~d.res.success
            THEN Answer(NotFoundOr500(d.res), <<d.res>>, d.stmts, d.S)
            ELSE Answer(Response(200, NoError, d.res.data, <<>>, ""), <<d.res>>, d.stmts, d.S)

DELETE(id, gu1, gu2, env, S) ==
  IF AuthFailed(gu1) THEN Answer(Json(401, "Unauthorized"), <<>>, <<>>, S)
  ELSE IF id = "" THEN Answer(Json(400, "Application ID is required"), <<>>, <<>>, S)
  ELSE LET d == deleteApplication(id, gu2, env, S)
       IN IF ~d.res.success
          THEN Answer(NotFoundOr500(d.res), <<d.res>>, d.stmts, d.S)
          ELSE Answer(Response(200, NoError, d.res.data, <<>>, ""), <<d.res>>, d.stmts, d.S)

\* formData.get(name): a field that was not appended reads as null
FormGet(v) == IF v = ABSENT THEN NULL ELSE v

createApplicationAction(form, gu1, gu2, env, S) ==
  IF AuthFailed(gu1) THEN Answer(Json(0, NotAuthenticated), <<>>, <<>>, S)
  ELSE LET rawData == Raw(FormGet(form.company_name), FormGet(form.position_title),
                          FormGet(form.application_date), FormGet(form.status),
                          FormGet(form.notes), ABSENT, ABSENT)
           v == createApplicationSchema(rawData)
       IN IF v.issues # <<>> THEN Answer(Json(0, v.issues[1].message), <<>>, <<>>, S)
          ELSE LET d == createApplication(v.data, gu2, env, S)
               IN IF ~d.res.success
                  THEN Answer(Response(0, d.res.error, <<>>, <<>>, ""), <<d.res>>, d.stmts, d.S)
                  ELSE Answer(Response(0, NoError, <<>>, <<>>, "/dashboard"),
                              <<d.res>>, d.stmts, d.S)

(***************************************************************************)
(* Requests.  The inputs each action draws from.                           *)
(***************************************************************************)

Acme == Raw("Acme", "Engineer", "2026-01-10", "applied", ABSENT, ABSENT, ABSENT)
NoFields == Raw(ABSENT, ABSENT, ABSENT, ABSENT, ABSENT, ABSENT, ABSENT)

\* arguments of direct calls of the data-access layer, as its types allow
CreateData == {Acme, [Acme EXCEPT !.notes = "call back"]}
              \cup {[Acme EXCEPT !.user_id = u] : u \in Users}
UpdateData == {[NoFields EXCEPT !.status = "offer"],
               [NoFields EXCEPT !.notes = NULL],
               NoFields}

\* request bodies of POST /api/applications
PostBodies ==
  {Acme, [Acme EXCEPT !.company_name = ""], Malformed}
  \cup {[Acme EXCEPT !.user_id = u, !.notes = "call back"] : u \in Users}

\* request bodies of PATCH /api/applications/[id]
PatchBodies ==
  {[NoFields EXCEPT !.status = "offer"],
   [NoFields EXCEPT !.company_name = ""],
   [NoFields EXCEPT !.id = UuidOf(1)],
   NoFields, Malformed}
  \cup {[NoFields EXCEPT !.status = "offer", !.user_id = u] : u \in Users}

\* form data of createApplicationAction
Forms ==
  {[Acme EXCEPT !.notes = "call back"], Acme, [Acme EXCEPT !.company_name = ""]}
  \cup {[Acme EXCEPT !.notes = "call back", !.user_id = u] : u \in Users}

\* text fields at the edges of what validation lets through: names made of
\* whitespace only, notes that are the empty string
BlankPostBodies == {Acme, [Acme EXCEPT !.company_name = " "],
                    [Acme EXCEPT !.notes = ""]}
BlankPatchBodies == {[NoFields EXCEPT !.position_title = " "],
                     [NoFields EXCEPT !.notes = ""]}
BlankForms == {[Acme EXCEPT !.position_title = " ", !.notes = "call back"],
               [Acme EXCEPT !.notes = ""]}

\* records created as withdrawn, and updates that set each of the statuses
StatusCreateData == {[Acme EXCEPT !.status = "withdrawn"]}
StatusUpdateData == {[NoFields EXCEPT !.status = t] : t \in applicationStatuses}

(***************************************************************************)
(* Actions: one per data-access function called from server code, one per  *)
(* entry point.                                                            *)
(***************************************************************************)

\* owner of the row the id names before the request, NULL if there is none
TargetOwner(id) ==
  IF \E r \in applications : r.id = Trim(id)
  THEN (CHOOSE r \in applications : r.id = Trim(id)).user_id
  ELSE NULL

NoEnv == [uid |-> NULL, fault |-> NoFault]

Idle == [op |-> "none", sess |-> NoSession, id |-> ABSENT, raw |-> NoFields,
         auths |-> <<>>, env |-> NoEnv, target |-> NULL, dal |-> <<>>, http |-> <<>>,
         stmts |-> <<>>]

\* the step of a request: the engine state it leaves and the record of it
Finish(op, sess, id, raw, auths, env, a) ==
  /\ a.S.nid <= NumIds + 1
  /\ a.S.clk <= MaxClock
  /\ applications' = a.S.apps
  /\ nextId' = a.S.nid
  /\ clock' = a.S.clk
  /\ creator' = [i \in DOMAIN creator \cup {r.id : r \in a.S.apps} |->
                   IF i \in DOMAIN creator THEN creator[i] ELSE sess]
  /\ last' = [op |-> op, sess |-> sess, id |-> id, raw |-> raw, auths |-> auths,
               env |-> env, target |-> TargetOwner(id), dal |-> a.dal, http |-> a.http,
               stmts |-> a.stmts]
  /\ UNCHANGED calls

Direct(d) == Answer(<<>>, <<d.res>>, d.stmts, d.S)
Routed(a) == [a EXCEPT !.http = <<a.http>>]

CallGetApplications ==
  /\ last = Idle
  /\ \E sess \in Sessions : \E gu \in Resolve(sess) : \E env \in Envs(sess, gu) :
       LET d == getApplications(gu, env, Store)
       IN Finish("getApplications", sess, ABSENT, NoFields, <<gu>>, env, Direct(d))

CallGetApplicationById ==
  /\ last = Idle
  /\ \E sess \in Sessions, id \in IdInputs :
       \E gu \in Resolve(sess) : \E env \in Envs(sess, gu) :
         LET d == getApplicationById(id, gu, env, Store)
         IN Finish("getApplicationById", sess, id, NoFields, <<gu>>, env, Direct(d))

CallCreateApplicationWith(args) ==
  /\ last = Idle
  /\ \E sess \in Sessions, data \in args :
       \E gu \in Resolve(sess) : \E env \in Envs(sess, gu) :
         LET d == createApplication(data, gu, env, Store)
         IN Finish("createApplication", sess, ABSENT, data, <<gu>>, env, Direct(d))

CallCreateApplication == CallCreateApplicationWith(CreateData)

CallUpdateApplicationWith(args) ==
  /\ last = Idle
  /\ \E sess \in Sessions, id \in IdInputs, data \in args :
       \E gu \in Resolve(sess) : \E env \in Envs(sess, gu) :
         LET d == updateApplication(id, data, gu, env, Store)
         IN Finish("updateApplication", sess, id, data, <<gu>>, env, Direct(d))

CallUpdateApplication == CallUpdateApplicationWith(UpdateData)

CallDeleteApplication ==
  /\ last = Idle
  /\ \E sess \in Sessions, id \in IdInputs :
       \E gu \in Resolve(sess) : \E env \in Envs(sess, gu) :
         LET d == deleteApplication(id, gu, env, Store)
         IN Finish("deleteApplication", sess, id, NoFields, <<gu>>, env, Direct(d))

\* An entry point calls getUser once itself and, if it gets as far as the
\* data-access layer, a second time there.
RequestPOSTWith(bodies) ==
  /\ last = Idle
  /\ \E sess \in Sessions, raw \in bodies : \E gu1 \in Resolve(sess) :
       LET early == POST(raw, gu1, NoUser, NoEnv, Store)
       IN IF early.dal = <<>>
          THEN Finish("POST", sess, ABSENT, raw, <<gu1>>, NoEnv, Routed(early))
          ELSE \E gu2 \in Resolve(sess) : \E env \in Envs(sess, gu2) :
                 LET a == POST(raw, gu1, gu2, env, Store)
                 IN Finish("POST", sess, ABSENT, raw, <<gu1, gu2>>, env, Routed(a))

RequestPOST == RequestPOSTWith(PostBodies)

RequestPATCHWith(bodies) ==
  /\ last = Idle
  /\ \E sess \in Sessions, id \in IdInputs, raw \in bodies : \E gu1 \in Resolve(sess) :
       LET early == PATCH(id, raw, gu1, NoUser, NoEnv, Store)
       IN IF early.dal = <<>>
          THEN Finish("PATCH", sess, id, raw, <<gu1>>, NoEnv, Routed(early))
          ELSE \E gu2 \in Resolve(sess) : \E env \in Envs(sess, gu2) :
                 LET a == PATCH(id, raw, gu1, gu2, env, Store)
                 IN Finish("PATCH", sess, id, raw, <<gu1, gu2>>, env, Routed(a))

RequestPATCH == RequestPATCHWith(PatchBodies)

RequestDELETE ==
  /\ last = Idle
  /\ \E sess \in Sessions, id \in IdInputs : \E gu1 \in Resolve(sess) :
       LET early == DELETE(id, gu1, NoUser, NoEnv, Store)
       IN IF early.dal = <<>>
          THEN Finish("DELETE", sess, id, NoFields, <<gu1>>, NoEnv, Routed(early))
          ELSE \E gu2 \in Resolve(sess) : \E env \in Envs(sess, gu2) :
                 LET a == DELETE(id, gu1, gu2, env, Store)
                 IN Finish("DELETE", sess, id, NoFields, <<gu1, gu2>>, env, Routed(a))

SubmitCreateApplicationActionWith(forms) ==
  /\ last = Idle
  /\ \E sess \in Sessions, form \in forms : \E gu1 \in Resolve(sess) :
       LET early == createApplicationAction(form, gu1, NoUser, NoEnv, Store)
       IN IF early.dal = <<>>
          THEN Finish("createApplicationAction", sess, ABSENT, form, <<gu1>>, NoEnv, Routed(early))
          ELSE \E gu2 \in Resolve(sess) : \E env \in Envs(sess, gu2) :
                 LET a == createApplicationAction(form, gu1, gu2, env, Store)
                 IN Finish("createApplicationAction", sess, ABSENT, form, <<gu1, gu2>>,
                           env, Routed(a))

SubmitCreateApplicationAction == SubmitCreateApplicationActionWith(Forms)

\* the outcome reaches the caller; the next request can be any
Deliver ==
  /\ last # Idle
  /\ last' = Idle
  /\ UNCHANGED <<applications, nextId, clock, creator, calls>>

(***************************************************************************)
(* The middleware.  A request is its pathname, its query parameters and    *)
(* its session cookie.  config.matcher decides whether the middleware runs *)
(* for a request at all.                                                   *)
(***************************************************************************)

Pathnames ==
  {"/", "/login", "/dashboard", "/dashboard/settings", "/dashboards",
   "/applications", "/applications/new", "/insights", "/insights/2026",
   "/api/applications", "/my/dashboard",
   "/dashboard/logo.png", "/logo.svg", "/favicon.ico", "/_next/static/chunk.js",
   "/_next/image"}

\* request.nextUrl.searchParams: none, one parameter, a redirectTo of the
\* sender's choosing
NoQuery == [k \in {} |-> ""]
Queries == {NoQuery, [k \in {"tab"} |-> "2"], [k \in {"redirectTo"} |-> "/elsewhere"]}

\* pathname.startsWith(prefix), for the pathnames above
PathStartsWith ==
  { <<"/dashboard", "/dashboard">>, <<"/dashboard/settings", "/dashboard">>,
    <<"/dashboards", "/dashboard">>, <<"/dashboard/logo.png", "/dashboard">>,
    <<"/applications", "/applications">>, <<"/applications/new", "/applications">>,
    <<"/insights", "/insights">>, <<"/insights/2026", "/insights">> }
StartsWith(pathname, prefix) == <<pathname, prefix>> \in PathStartsWith

\* config.matcher: every path except _next/static, _next/image, favicon.ico
\* and those that end in an image extension
matcher(pathname) ==
  pathname \notin {"/_next/static/chunk.js", "/_next/image", "/favicon.ico",
                   "/logo.svg", "/dashboard/logo.png"}

\* updateSession(request): the response that carries the (possibly
\* refreshed) session cookies, and the user the session resolves to
NextResponse(refreshed) == [kind |-> "next", refreshed |-> refreshed, url |-> <<>>]
updateSession(sess) ==
  {[response |-> NextResponse(refreshed), user |-> u] :
     refreshed \in (IF sess = NoSession THEN {FALSE} ELSE BOOLEAN),
     u \in (IF sess = NoSession THEN {} ELSE {sess}) \cup {NULL}}

\* NextResponse.redirect(url)
Redirect(url) == [kind |-> "redirect", refreshed |-> FALSE, url |-> <<url>>]

protectedPaths == {"/dashboard", "/applications", "/insights"}

\* the middleware protecting the three paths themselves only
middlewareExactPaths(pathname, query, session) ==
  LET isProtectedPath == pathname \in protectedPaths
  IN IF isProtectedPath /\ session.user = NULL
     THEN Redirect([pathname |-> "/login",
                    searchParams |-> [k \in DOMAIN query \cup {"redirectTo"} |->
                                        IF k = "redirectTo" THEN pathname ELSE query[k]]])
     ELSE session.response

middleware(pathname, query, session) ==
  LET isProtectedPath == \E path \in protectedPaths : StartsWith(pathname, path)
  IN IF isProtectedPath /\ session.user = NULL
     THEN Redirect([pathname |-> "/login",
                    searchParams |-> [k \in DOMAIN query \cup {"redirectTo"} |->
                                        IF k = "redirectTo" THEN pathname ELSE query[k]]])
     ELSE session.response

\* a request the matcher hands to the middleware
RunMiddleware ==
  /\ last = Idle
  /\ \E sess \in Sessions, pathname \in Pathnames, query \in Queries :
       /\ matcher(pathname)
       /\ \E session \in updateSession(sess) :
            last' = [op |-> "middleware", sess |-> sess, pathname |-> pathname,
                     query |-> query, session |-> <<session>>,
                     answer |-> <<middleware(pathname, query, session)>>]
  /\ UNCHANGED <<applications, nextId, clock, creator, calls>>

\* a request the matcher keeps from the middleware: it is served as it is
ServeUnmatched ==
  /\ last = Idle
  /\ \E sess \in Sessions, pathname \in Pathnames, query \in Queries :
       /\ ~matcher(pathname)
       /\ last' = [op |-> "unmatched", sess |-> sess, pathname |-> pathname,
                    query |-> query, session |-> <<>>, answer |-> <<>>]
  /\ UNCHANGED <<applications, nextId, clock, creator, calls>>

(***************************************************************************)
(* Calls of the data-access layer in which createClient, getUser or the    *)
(* storage call may throw.                                                 *)
(***************************************************************************)

ResolveOrThrow(sess) == Resolve(sess) \cup {ClientThrows, GetUserThrows}

EnvsOrThrow(sess, gu) ==
  Envs(sess, gu) \cup
  (IF AuthFailed(gu) THEN {} ELSE {[uid |-> sess, fault |-> StorageThrows]})

\* the call of the function named op
Invoke(op, id, data, gu, env, S) ==
  CASE op = "getApplications" -> getApplications(gu, env, S)
    [] op = "getApplicationById" -> getApplicationById(id, gu, env, S)
    [] op = "createApplication" -> createApplication(data, gu, env, S)
    [] op = "updateApplication" -> updateApplication(id, data, gu, env, S)
    [] op = "deleteApplication" -> deleteApplication(id, gu, env, S)

ArgsOf(op) ==
  CASE op = "createApplication" -> {Acme}
    [] op = "updateApplication" -> {[NoFields EXCEPT !.status = "offer"]}
    [] OTHER -> {NoFields}

IdsOf(op) ==
  IF op \in {"getApplications", "createApplication"} THEN {ABSENT} ELSE IdInputs

CallOrThrow(op) ==
  /\ last = Idle
  /\ \E sess \in Sessions, id \in IdsOf(op), data \in ArgsOf(op) :
       \E gu \in ResolveOrThrow(sess) : \E env \in EnvsOrThrow(sess, gu) :
         LET d == Invoke(op, id, data, gu, env, Store)
         IN Finish(op, sess, id, data, <<gu>>, env, Direct(d))

(***************************************************************************)
(* Two invocations of updateApplication that overlap.  An invocation is    *)
(* two steps: it awaits getUser and checks the id (EnterUpdate), then      *)
(* awaits the UPDATE statement (RunUpdate).  The engine applies each       *)
(* statement atomically, so the two statements run in one order or the     *)
(* other, and anything may happen between the steps of one invocation.     *)
(* The invocations are numbered in the order they are entered.             *)
(***************************************************************************)

CallIds == {1, 2}

NotCalled == [pc |-> "idle", sess |-> NoSession, id |-> ABSENT, data |-> NoFields,
              gu |-> NoUser, env |-> NoEnv, target |-> NULL, res |-> <<>>,
              stmts |-> <<>>, peer |-> "idle"]

ConcurrentData ==
  {[NoFields EXCEPT !.status = "offer"],
   [NoFields EXCEPT !.status = "rejected", !.notes = "call back"],
   [NoFields EXCEPT !.notes = NULL]}

\* up to the statement: getUser and the id checks, which read no row
EnterUpdate(c) ==
  /\ last = Idle
  /\ calls[c].pc = "idle"
  /\ \A b \in CallIds : b < c => calls[b].pc # "idle"
  /\ \E sess \in Users, id \in Ids, data \in ConcurrentData : \E gu \in Resolve(sess) :
       LET early == updateApplication(id, data, gu, NoEnv, Store)
       IN calls' = [calls EXCEPT ![c] =
            IF early.stmts = <<>>
            THEN [NotCalled EXCEPT !.pc = "returned", !.sess = sess, !.id = id,
                                   !.data = data, !.gu = gu, !.res = <<early.res>>]
            ELSE [NotCalled EXCEPT !.pc = "sending", !.sess = sess, !.id = id,
                                   !.data = data, !.gu = gu]]
  /\ UNCHANGED <<applications, nextId, clock, creator, last>>

\* the statement runs on the rows as they are now, and the result returns
RunUpdate(c) ==
  /\ calls[c].pc = "sending"
  /\ \E env \in Envs(calls[c].sess, calls[c].gu) :
       LET k == calls[c]
           d == updateApplication(k.id, k.data, k.gu, env, Store)
       IN /\ d.S.clk <= MaxClock
          /\ applications' = d.S.apps
          /\ nextId' = d.S.nid
          /\ clock' = d.S.clk
          /\ calls' = [calls EXCEPT ![c] =
               [k EXCEPT !.pc = "returned", !.env = env, !.target = TargetOwner(k.id),
                         !.res = <<d.res>>, !.stmts = d.stmts,
                         !.peer = calls[CHOOSE b \in CallIds : b # c].pc]]
  /\ UNCHANGED <<creator, last>>

(***************************************************************************)
(* Statements sent straight to the engine by a signed-in user (or by       *)
(* nobody), as the RLS verification checklist does: only the row-level     *)
(* policies stand between the caller and the table.                        *)
(***************************************************************************)

Callers == Users \cup {NULL}

RawFilters ==
  {{}} \cup {IdFilter(i) : i \in Ids}
       \cup {{[col |-> "user_id", op |-> o, val |-> u]} : o \in {"eq", "neq"}, u \in Users}

RawInserts == {[user_id |-> u, company_name |-> "Acme",
                position_title |-> "Engineer", application_date |-> "2026-01-10",
                status |-> "applied", notes |-> ABSENT] : u \in Users}

RawUpdates ==
  {[c \in {"status"} |-> "offer"]}
  \cup {[c \in {"user_id"} |-> u] : u \in Users}

FinishRaw(stmt, uid, reply) ==
  Finish(stmt.kind, IF uid = NULL THEN NoSession ELSE uid, ABSENT, NoFields, <<>>,
         [uid |-> uid, fault |-> NoFault],
         Answer(<<>>,
                <<IF reply.error # NoFault THEN FailWith("", reply.error)
                  ELSE Ok(OrderDesc(reply.rows))>>,
                <<stmt>>, reply.S))

RawSelect ==
  /\ last = Idle
  /\ \E uid \in Callers, filter \in RawFilters :
       LET stmt == Statement("select", filter, NoVals, TRUE)
           reply == Execute(RlsEnabled, stmt, [uid |-> uid, fault |-> NoFault], Store)
       IN FinishRaw(stmt, uid, reply)

RawInsert ==
  /\ last = Idle
  /\ \E uid \in Callers, vals \in RawInserts, returning \in BOOLEAN :
       LET stmt == Statement("insert", {}, vals, returning)
           reply == Execute(RlsEnabled, stmt, [uid |-> uid, fault |-> NoFault], Store)
       IN FinishRaw(stmt, uid, reply)

RawUpdate ==
  /\ last = Idle
  /\ \E uid \in Callers, filter \in RawFilters, vals \in RawUpdates,
          returning \in BOOLEAN :
       LET stmt == Statement("update", filter, vals, returning)
           reply == Execute(RlsEnabled, stmt, [uid |-> uid, fault |-> NoFault], Store)
       IN FinishRaw(stmt, uid, reply)

RawDelete ==
  /\ last = Idle
  /\ \E uid \in Callers, filter \in RawFilters, returning \in BOOLEAN :
       LET stmt == Statement("delete", filter, NoVals, returning)
           reply == Execute(RlsEnabled, stmt, [uid |-> uid, fault |-> NoFault], Store)
       IN FinishRaw(stmt, uid, reply)

Init ==
  /\ applications = {}
  /\ nextId = 1
  /\ clock = 0
  /\ creator = [i \in {} |-> NULL]
  /\ last = Idle
  /\ calls = [c \in CallIds |-> NotCalled]

Next ==
  \/ CallGetApplications
  \/ CallGetApplicationById
  \/ CallCreateApplication
  \/ CallUpdateApplication
  \/ CallDeleteApplication
  \/ RequestPOST
  \/ RequestPATCH
  \/ RequestDELETE
  \/ SubmitCreateApplicationAction
  \/ Deliver

Spec == Init /\ [][Next]_vars

\* the engine under direct statements only
NextEngine ==
  \/ RawSelect
  \/ RawInsert
  \/ RawUpdate
  \/ RawDelete
  \/ Deliver

SpecEngine == Init /\ [][NextEngine]_vars

\* the application and direct statements side by side
NextOpen ==
  \/ CallGetApplications
  \/ CallGetApplicationById
  \/ CallCreateApplication
  \/ CallUpdateApplication
  \/ CallDeleteApplication
  \/ RequestPOST
  \/ RequestPATCH
  \/ RequestDELETE
  \/ SubmitCreateApplicationAction
  \/ RawSelect
  \/ RawInsert
  \/ RawUpdate
  \/ RawDelete
  \/ Deliver

SpecOpen == Init /\ [][NextOpen]_vars

\* the create and update entry points fed with whitespace-only names and
\* with empty notes
PostBlank == RequestPOSTWith(BlankPostBodies)
PatchBlank == RequestPATCHWith(BlankPatchBodies)
SubmitBlank == SubmitCreateApplicationActionWith(BlankForms)

NextBlank ==
  \/ PostBlank
  \/ PatchBlank
  \/ SubmitBlank
  \/ Deliver

SpecBlank == Init /\ [][NextBlank]_vars

\* records whose status is moved between every pair of statuses
CreateWithdrawn == CallCreateApplicationWith(StatusCreateData)
UpdateStatus == CallUpdateApplicationWith(StatusUpdateData)
PatchStatus == RequestPATCHWith(StatusUpdateData)

NextStatus ==
  \/ CreateWithdrawn
  \/ UpdateStatus
  \/ PatchStatus
  \/ Deliver

SpecStatus == Init /\ [][NextStatus]_vars

\* users' records, made before the invocations are entered, and two
\* overlapping updates of them
CreateForUpdate ==
  /\ calls[1].pc = "idle"
  /\ CallCreateApplicationWith({Acme})

NextConcurrent ==
  \/ CreateForUpdate
  \/ Deliver
  \/ \E c \in CallIds : EnterUpdate(c)
  \/ \E c \in CallIds : RunUpdate(c)

SpecConcurrent == Init /\ [][NextConcurrent]_vars

\* the data-access functions called while their awaited calls may throw
NextThrow ==
  \/ CallOrThrow("getApplications")
  \/ CallOrThrow("getApplicationById")
  \/ CallOrThrow("createApplication")
  \/ CallOrThrow("updateApplication")
  \/ CallOrThrow("deleteApplication")
  \/ Deliver

SpecThrow == Init /\ [][NextThrow]_vars

\* requests as the middleware sees them
NextMiddleware ==
  \/ RunMiddleware
  \/ ServeUnmatched
  \/ Deliver

SpecMiddleware == Init /\ [][NextMiddleware]_vars

(***************************************************************************)
(* Properties.                                                             *)
(***************************************************************************)

\* the rows a data-access call handed back
ReturnedRows == IF last.dal = <<>> THEN <<>> ELSE last.dal[1].data

\* C1: for identities A # B, a record created by A is never returned by
\* getApplications or getApplicationById invoked under B, and is never changed
\* by updateApplication or removed by deleteApplication invoked under B
\* (directly or through PATCH and DELETE).
C1_CrossOwnerIsolation ==
  /\ [](last.op \in {"getApplications", "getApplicationById"} =>
          \A k \in 1..Len(ReturnedRows) : creator[ReturnedRows[k].id] = last.sess)
  /\ [][last'.op \in {"updateApplication", "deleteApplication", "PATCH", "DELETE"} =>
          \A r \in applications : creator[r.id] # last'.sess => r \in applications']_vars

\* B's update reached the engine, under B's token, against a record of A
C1_Witness ==
  /\ last.op = "updateApplication"
  /\ last.target \notin {NULL, last.sess}
  /\ last.stmts # <<>>
  /\ DOMAIN last.stmts[1].vals # {}
  /\ last.env = [uid |-> last.sess, fault |-> NoFault]

\* C2: for an authenticated caller B and a well-formed id, the outcome of
\* getApplicationById, updateApplication, deleteApplication, PATCH and DELETE
\* on an id that names a record of another identity is the outcome the same
\* request has when the id names no record at all.
C2_NoExistenceLeak ==
  ( /\ last.op \in {"getApplicationById", "updateApplication", "deleteApplication",
                     "PATCH", "DELETE"}
    /\ \A k \in 1..Len(last.auths) : ~AuthFailed(last.auths[k])
    /\ IsUuid(last.id)
    /\ last.target \notin {NULL, last.sess} )
  => LET gone == [Store EXCEPT !.apps = {r \in applications : r.id # last.id}]
         gu1 == last.auths[1]
         gu2 == IF Len(last.auths) = 2 THEN last.auths[2] ELSE NoUser
     IN CASE last.op = "getApplicationById" ->
               last.dal = <<getApplicationById(last.id, gu1, last.env, gone).res>>
          [] last.op = "updateApplication" ->
               last.dal = <<updateApplication(last.id, last.raw, gu1, last.env, gone).res>>
          [] last.op = "deleteApplication" ->
               last.dal = <<deleteApplication(last.id, gu1, last.env, gone).res>>
          [] last.op = "PATCH" ->
               last.http = <<PATCH(last.id, last.raw, gu1, gu2, last.env, gone).http>>
          [] last.op = "DELETE" ->
               last.http = <<DELETE(last.id, gu1, gu2, last.env, gone).http>>

\* B asked for a record of A by its id and the statement ran under B's token
C2_Witness ==
  /\ last.op = "getApplicationById"
  /\ last.target \notin {NULL, last.sess}
  /\ last.env = [uid |-> last.sess, fault |-> NoFault]
  /\ last.stmts # <<>>

\* C3: for every successful create call, through createApplication, POST or
\* createApplicationAction, the persisted owner is the identity resolved from
\* the session, and the owner the insert statement names is that identity,
\* whatever user_id the caller put in the payload.
C3_OwnerFromSession ==
  last.op \in {"createApplication", "POST", "createApplicationAction"} =>
    /\ \A k \in 1..Len(last.stmts) : last.stmts[k].vals.user_id = last.sess
    /\ (last.dal # <<>> /\ last.dal[1].success) =>
          /\ Len(last.dal[1].data) = 1
          /\ last.dal[1].data[1] \in applications
          /\ last.dal[1].data[1].user_id = last.sess

\* a create succeeded although its payload named another user as the owner
C3_Witness ==
  /\ last.op \in {"createApplication", "POST"}
  /\ last.raw.user_id \notin {ABSENT, last.sess}
  /\ last.dal # <<>>
  /\ last.dal[1].success

\* C4: in every reachable state each record has exactly one owner, the
\* identity that created it, and no step changes the owner of a record.
C4_OwnerFixedAtCreation ==
  /\ [](\A r \in applications :
          /\ r.id \in DOMAIN creator
          /\ r.user_id = creator[r.id]
          /\ \A q \in applications : q.id = r.id => q = r)
  /\ [][\A r \in applications : \A q \in applications' :
          q.id = r.id => q.user_id = r.user_id]_vars

\* an owner's PATCH that named another user as the owner went through
C4_Witness ==
  /\ last.op = "PATCH"
  /\ last.raw.user_id \notin {ABSENT, last.sess}
  /\ last.http[1].status = 200

\* C5: under the row-level policies alone, for a caller c and a statement
\* with any filter: the rows a statement returns are rows of c, a row is
\* inserted only with owner c, an update or delete touches only rows of c and
\* leaves no row with another owner, and without an identity no row is
\* returned or changed.
C5_RowLevelPolicy ==
  /\ [](last.op \in {"select", "insert", "update", "delete"} =>
          /\ \A k \in 1..Len(ReturnedRows) : ReturnedRows[k].user_id = last.env.uid
          /\ last.env.uid = NULL => ReturnedRows = <<>>)
  /\ [][last'.op \in {"select", "insert", "update", "delete"} =>
          /\ \A r \in applications \ applications' : r.user_id = last'.env.uid
          /\ \A r \in applications' \ applications : r.user_id = last'.env.uid
          /\ last'.env.uid = NULL => applications' = applications]_vars

\* an owner's update that hands a row to another user was refused
C5_Witness ==
  /\ last.op = "update"
  /\ "user_id" \in DOMAIN last.stmts[1].vals
  /\ last.env.uid \notin {NULL, last.stmts[1].vals.user_id}
  /\ \E r \in applications : r.user_id = last.env.uid /\ Matches(r, last.stmts[1].filter)
  /\ last.dal = <<FailWith("", RlsViolation)>>

DataAccessOps == {"getApplications", "getApplicationById", "createApplication",
                  "updateApplication", "deleteApplication"}
EntryPoints == {"POST", "PATCH", "DELETE", "createApplicationAction"}

C7_UnauthenticatedDataAccess ==
  [][ /\ (last'.op \in DataAccessOps /\ AuthFailed(last'.auths[1])) =>
           /\ last'.dal = <<Fail(NotAuthenticated)>>
           /\ last'.stmts = <<>>
           /\ applications' = applications
      /\ (last'.op \in EntryPoints /\ Len(last'.auths) = 2 /\ AuthFailed(last'.auths[2])) =>
           /\ last'.dal = <<Fail(NotAuthenticated)>>
           /\ last'.stmts = <<>>
           /\ applications' = applications ]_vars

\* deleteApplication was called for an existing record with no user resolved
C7_Witness ==
  /\ last.op = "deleteApplication"
  /\ AuthFailed(last.auths[1])
  /\ last.target # NULL

C9_UniformUnauthenticated ==
  ( /\ last.op \in {"POST", "PATCH", "DELETE"}
    /\ \E k \in 1..Len(last.auths) : AuthFailed(last.auths[k]) )
  => last.http = <<Json(401, "Unauthorized")>>

\* C10: updateApplication and PATCH on a well-formed id for which the caller
\* sees no row (no such record, or a record of another identity) give the
\* not-found outcome: 'Application not found or access denied', HTTP 404
\* 'Application not found'.
C10_UpdateNotFound ==
  ( /\ last.op \in {"updateApplication", "PATCH"}
    /\ \A k \in 1..Len(last.auths) : ~AuthFailed(last.auths[k])
    /\ IsUuid(last.id)
    /\ last.stmts # <<>>
    /\ DOMAIN last.stmts[1].vals # {}
    /\ last.env = [uid |-> last.sess, fault |-> NoFault]
    /\ last.target # last.sess )
  => /\ last.dal = <<Fail("Application not found or access denied")>>
     /\ last.op = "PATCH" => last.http = <<Json(404, "Application not found")>>

\* the request was made by a signed-in user whose getUser calls all resolved,
\* and its statement ran under that user's token without a fault
Authenticated(req) ==
  /\ req.auths # <<>>
  /\ \A k \in 1..Len(req.auths) : ~AuthFailed(req.auths[k])
  /\ req.env = [uid |-> req.sess, fault |-> NoFault]

\* C11: deleteApplication(id), for an authenticated caller and a well-formed
\* id, removes the record and returns success with {id} exactly when a record
\* with that id owned by the caller exists; otherwise it returns the
\* not-found outcome (DELETE: HTTP 404) and removes no row.
C11_DeleteOwnedOnly ==
  [][ ( /\ last'.op \in {"deleteApplication", "DELETE"}
        /\ Authenticated(last')
        /\ Len(last'.auths) = (IF last'.op = "DELETE" THEN 2 ELSE 1)
        /\ IsUuid(last'.id) )
      => LET own == {r \in applications : r.id = last'.id /\ r.user_id = last'.sess}
         IN IF own # {}
            THEN /\ applications' = applications \ own
                 /\ last'.dal = <<Ok(<<[id |-> last'.id]>>)>>
                 /\ last'.op = "DELETE" =>
                      last'.http = <<Response(200, NoError, <<[id |-> last'.id]>>, <<>>, "")>>
            ELSE /\ applications' = applications
                 /\ last'.dal = <<FailWith("Application not found or access denied: ",
                                           last'.id)>>
                 /\ last'.op = "DELETE" =>
                      last'.http = <<Json(404, "Application not found")>> ]_vars

\* an owner deleted their record while a record of another user stayed
C11_Witness ==
  /\ last.op = "deleteApplication"
  /\ last.target = last.sess
  /\ last.dal[1].success
  /\ \E r \in applications : r.user_id # last.sess

\* the ids gen_random_uuid() has handed out that no row holds any more
DeletedIds == {UuidOf(i) : i \in 1..(nextId - 1)} \ {r.id : r \in applications}

\* C12: after a successful deleteApplication(id) no row has that id, a
\* deleted id is never held by a row again whatever operations follow, and
\* every getApplicationById of a deleted id, by any identity, returns success
\* with data null.
C12_DeletedStaysGone ==
  /\ [](( /\ last.op = "getApplicationById"
           /\ \A k \in 1..Len(last.auths) : ~AuthFailed(last.auths[k])
           /\ last.env.fault = NoFault
           /\ last.id \in DeletedIds )
         => last.dal = <<Ok(<<>>)>>)
  /\ [][ /\ ( /\ last'.op \in {"deleteApplication", "DELETE"}
               /\ last'.dal # <<>>
               /\ last'.dal[1].success )
             => \A r \in applications' : r.id # last'.id
         /\ \A r \in applications' : r.id \notin DeletedIds ]_vars

\* the former owner asked for a record they had deleted, after another
\* record was created
C12_Witness ==
  /\ last.op = "getApplicationById"
  /\ Authenticated(last)
  /\ last.id \in DeletedIds
  /\ creator[last.id] = last.sess
  /\ \E r \in applications : r.created_at > 1

\* the fields an update request supplies: the argument of updateApplication,
\* or what the body of a PATCH leaves after validation
SuppliedFields(req) ==
  IF req.op = "PATCH" THEN Supplied(updateApplicationSchema(req.raw).data)
  ELSE Supplied(req.raw)

\* C13: an update that supplies no field is answered with an error, never
\* with success, and leaves every record (updated_at included) as it was:
\* updateApplication(id, {}) and a PATCH whose body leaves no updatable field
\* after validation.
C13_EmptyUpdateRejected ==
  [][ ( /\ last'.op \in {"updateApplication", "PATCH"}
        /\ ~last'.raw.malformed
        /\ last'.op = "PATCH" => updateApplicationSchema(last'.raw).issues = <<>>
        /\ DOMAIN SuppliedFields(last') = {} )
      => /\ applications' = applications
         /\ \A k \in 1..Len(last'.dal) : ~last'.dal[k].success
         /\ last'.op = "updateApplication" => last'.dal # <<>>
         /\ last'.op = "PATCH" => last'.http[1].status >= 400 ]_vars

\* an owner's PATCH of their record whose body held nothing but an id key
C13_Witness ==
  /\ last.op = "PATCH"
  /\ Authenticated(last)
  /\ last.target = last.sess
  /\ last.raw = [NoFields EXCEPT !.id = UuidOf(1)]
  /\ last.stmts # <<>>

\* C14 as the specification words it: an update input that contains the
\* identifier (id) or the owner (user_id) is rejected with an error.
C14_ImmutableKeysRejected ==
  ( /\ last.op = "PATCH"
    /\ ~last.raw.malformed
    /\ last.raw.id # ABSENT \/ last.raw.user_id # ABSENT )
  => /\ last.http[1].status >= 400
     /\ \A k \in 1..Len(last.dal) : ~last.dal[k].success

\* C14, amended: an update input that contains id or user_id is not rejected
\* for it.  The two keys are dropped without notice: they never reach the
\* update statement, and when the input has another key the request is
\* answered exactly as the same input without them.
C14_ImmutableKeysDropped ==
  [][ ( /\ last'.op = "PATCH"
        /\ ~last'.raw.malformed
        /\ last'.raw.id # ABSENT \/ last'.raw.user_id # ABSENT )
      => LET rest == [last'.raw EXCEPT !.id = ABSENT, !.user_id = ABSENT]
             gu1 == last'.auths[1]
             gu2 == IF Len(last'.auths) = 2 THEN last'.auths[2] ELSE NoUser
         IN /\ \A k \in 1..Len(last'.stmts) :
                  /\ DOMAIN last'.stmts[k].vals \subseteq UpdatableColumns
                  /\ last'.stmts[k].vals = Supplied(updateApplicationSchema(rest).data)
            /\ rest # NoFields =>
                  last'.http = <<PATCH(last'.id, rest, gu1, gu2, last'.env, Store).http>> ]_vars

\* an owner's PATCH {status, user_id: another user} was answered 200 with the
\* record still theirs
C14_Witness ==
  /\ last.op = "PATCH"
  /\ last.raw.user_id \notin {ABSENT, last.sess}
  /\ last.http[1].status = 200
  /\ last.http[1].data[1].user_id = last.sess
  /\ last.http[1].data[1].status = last.raw.status

\* C15: a successful updateApplication(id, fields), direct or through PATCH,
\* changes only the supplied fields and updated_at of the record with that
\* id: the record's id, owner, created_at and unsupplied fields keep their
\* values and every other record is unchanged.
C15_UpdateFrame ==
  [][ ( /\ last'.op \in {"updateApplication", "PATCH"}
        /\ last'.dal # <<>>
        /\ last'.dal[1].success )
      => \E old \in applications :
           LET new == last'.dal[1].data[1]
               fields == SuppliedFields(last')
           IN /\ old.id = last'.id
              /\ applications' = (applications \ {old}) \cup {new}
              /\ \A c \in DOMAIN old :
                   IF c \in DOMAIN fields THEN new[c] = fields[c]
                   ELSE c # "updated_at" => new[c] = old[c] ]_vars

\* an owner changed the status of one of their two records
C15_Witness ==
  /\ last.op = "updateApplication"
  /\ last.dal[1].success
  /\ last.raw.status # ABSENT
  /\ \E r \in applications : r.id # last.id /\ r.user_id = last.sess

CreateFields(req) ==
  CASE req.op = "POST" -> createApplicationSchema(req.raw).data
    [] req.op = "createApplicationAction" ->
         createApplicationSchema(
           Raw(FormGet(req.raw.company_name), FormGet(req.raw.position_title),
               FormGet(req.raw.application_date), FormGet(req.raw.status),
               FormGet(req.raw.notes), ABSENT, ABSENT)).data
    [] OTHER -> req.raw

\* C17: round trip.  After a successful create, getApplicationById(result
\* id) under the same identity, with no mutation in between, returns the
\* created record: equal to the input in every caller-supplied field (notes
\* null when none was given) and with created_at = updated_at.  A
\* getApplicationById of one's own record returns the stored row.
C17_CreateRoundTrip ==
  /\ ( /\ last.op \in {"createApplication", "POST", "createApplicationAction"}
        /\ last.dal # <<>>
        /\ last.dal[1].success )
      => LET created == last.dal[1].data[1]
             fields == CreateFields(last)
             got == getApplicationById(created.id, GotUser(last.sess),
                                       [uid |-> last.sess, fault |-> NoFault], Store).res
         IN /\ got = Ok(<<created>>)
            /\ \A c \in UpdatableColumns \ {"notes"} : got.data[1][c] = fields[c]
            /\ got.data[1].notes = OrNull(fields.notes)
            /\ got.data[1].created_at = got.data[1].updated_at
  /\ ( /\ last.op = "getApplicationById"
        /\ Authenticated(last)
        /\ last.target = last.sess )
      => /\ last.dal[1].success
         /\ Len(last.dal[1].data) = 1
         /\ last.dal[1].data[1] \in applications
         /\ last.dal[1].data[1].id = last.id

\* a user fetched the record they had just created with notes, before any
\* other write
C17_Witness ==
  /\ last.op = "getApplicationById"
  /\ Authenticated(last)
  /\ last.dal[1].success
  /\ last.dal[1].data # <<>>
  /\ last.dal[1].data[1].notes = "call back"
  /\ last.dal[1].data[1].created_at = clock
  /\ last.dal[1].data[1].updated_at = clock

\* C18: getApplications under identity A returns exactly the records owned
\* by A, each once, in non-increasing created_at order, and returns success
\* with an empty array when A owns no record.
C18_ListOwnNewestFirst ==
  ( /\ last.op = "getApplications"
    /\ Authenticated(last) )
  => LET own == {r \in applications : r.user_id = last.sess}
         data == last.dal[1].data
     IN /\ last.dal[1].success
        /\ {data[k] : k \in 1..Len(data)} = own
        /\ Len(data) = Cardinality(own)
        /\ \A i \in 1..Len(data) : \A j \in i..Len(data) :
              data[i].created_at >= data[j].created_at
        /\ own = {} => last.dal = <<Ok(<<>>)>>

\* a user with two records listed them
C18_Witness ==
  /\ last.op = "getApplications"
  /\ Authenticated(last)
  /\ Len(last.dal[1].data) = 2
  /\ last.dal[1].data[1].created_at > last.dal[1].data[2].created_at

\* C19: a create call whose company_name is empty is rejected with a
\* validation error that names the company_name field and no row is
\* persisted: POST answers 400 'Validation failed' with an issue whose path
\* is company_name, createApplicationAction returns the failure 'Company name
\* is required'.
C19_EmptyCompanyNameRejected ==
  [][ ( /\ last'.op \in {"POST", "createApplicationAction"}
        /\ ~AuthFailed(last'.auths[1])
        /\ last'.raw.company_name = "" )
      => /\ applications' = applications
         /\ last'.stmts = <<>>
         /\ IF last'.op = "POST"
            THEN /\ last'.http[1].status = 400
                 /\ last'.http[1].error.msg = "Validation failed"
                 /\ \E k \in 1..Len(last'.http[1].details) :
                      last'.http[1].details[k].path = "company_name"
            ELSE last'.http = <<Json(0, "Company name is required")>> ]_vars

\* a signed-in user submitted the form with an empty company name
C19_Witness ==
  /\ last.op = "createApplicationAction"
  /\ ~AuthFailed(last.auths[1])
  /\ last.raw.company_name = ""
  /\ last.raw.position_title # ""

\* C20: every record persisted through the create and update entry points
\* has a non-empty company_name and a non-empty position_title.
C20_NamesNonEmpty ==
  \A r \in applications : r.company_name # "" /\ r.position_title # ""

\* C21: whenever create or update is given notes equal to the empty string
\* the persisted notes is null: no record reachable through the entry points
\* holds notes = ''.
C21_EmptyNotesStoredAsNull ==
  \A r \in applications : r.notes # ""

\* C22: a create that omits notes, with valid company_name, position_title,
\* application_date and status 'applied', made by a signed-in user whose
\* statement (if one is issued) runs under their token without a fault,
\* succeeds and persists a record with a generated id, status 'applied' and
\* notes null, through POST /api/applications and through
\* createApplicationAction fed by ApplicationForm alike.
C22_CreateWithoutNotes ==
  ( /\ last.op \in {"POST", "createApplicationAction"}
    /\ last.raw = Acme
    /\ last.auths # <<>>
    /\ \A k \in 1..Len(last.auths) : ~AuthFailed(last.auths[k])
    /\ last.stmts # <<>> => last.env = [uid |-> last.sess, fault |-> NoFault] )
  => /\ last.dal # <<>>
     /\ last.dal[1].success
     /\ LET created == last.dal[1].data[1]
        IN /\ created \in applications
           /\ created.id \in Ids
           /\ created.status = "applied"
           /\ created.notes = NULL

\* C23: status has no transition constraints.  For every pair (s, t) of the
\* five statuses, an update {status: t} by the owner of a record whose
\* status is s, direct or through PATCH, succeeds and leaves the record
\* with status t.
C23_AnyStatusTransition ==
  [][ \A s \in applicationStatuses, t \in applicationStatuses :
        ( /\ last'.op \in {"updateApplication", "PATCH"}
          /\ Authenticated(last')
          /\ last'.raw = [NoFields EXCEPT !.status = t]
          /\ \E old \in applications :
               old.id = last'.id /\ old.user_id = last'.sess /\ old.status = s )
        => /\ last'.dal[1].success
           /\ last'.dal[1].data[1].status = t
           /\ \E new \in applications' : new.id = last'.id /\ new.status = t ]_vars

\* a record created as withdrawn was set back to applied by its owner as the
\* next write
C23_Witness ==
  /\ last.op \in {"updateApplication", "PATCH"}
  /\ Authenticated(last)
  /\ last.raw.status = "applied"
  /\ last.dal[1].success
  /\ last.dal[1].data[1].status = "applied"
  /\ last.dal[1].data[1].updated_at = last.dal[1].data[1].created_at + 1
  /\ last.dal[1].data[1] \in applications

\* the invocation was made by the owner of the record its id names: getUser
\* resolved, and the statement ran under the caller's token, without a
\* fault, on a record of the caller
OwnerCall(k) ==
  /\ k.pc = "returned"
  /\ ~AuthFailed(k.gu)
  /\ k.env = [uid |-> k.sess, fault |-> NoFault]
  /\ k.target = k.sess

\* when the engine applied the statement of a successful invocation
AppliedAt(k) == k.res[1].data[1].updated_at

\* C24: two concurrent updateApplication calls by the owner on the same
\* record both succeed, none is rejected for a conflict, and afterwards each
\* field of the record holds the value given by the statement the engine
\* applied last among those that supplied that field (last write wins).
C24_LastWriteWins ==
  ( /\ \A c \in CallIds : OwnerCall(calls[c])
    /\ calls[1].id = calls[2].id )
  => /\ \A c \in CallIds : calls[c].res[1].success
     /\ \E r \in applications :
          /\ r.id = calls[1].id
          /\ \A f \in UpdatableColumns :
               LET sup == {c \in CallIds : f \in DOMAIN Supplied(calls[c].data)}
               IN sup # {} =>
                    LET w == CHOOSE c \in sup :
                               \A b \in sup : AppliedAt(calls[b]) <= AppliedAt(calls[c])
                    IN r[f] = calls[w].data[f]

\* the owner's two invocations overlapped: the one entered first set status
\* and notes, the one entered second set status and was applied first, and
\* the record holds the status of the first and the notes of the first
C24_Witness ==
  /\ \A c \in CallIds : OwnerCall(calls[c]) /\ calls[c].res[1].success
  /\ calls[1].id = calls[2].id
  /\ calls[2].peer = "sending"
  /\ calls[1].data.status = "rejected"
  /\ calls[2].data.status = "offer"
  /\ AppliedAt(calls[1]) > AppliedAt(calls[2])
  /\ \E r \in applications :
       r.id = calls[1].id /\ r.status = "rejected" /\ r.notes = "call back"

\* the messages the storage engine reports
EngineMessages ==
  EngineFaults \cup {RlsViolation, NoRowsError} \cup
  {"null value in column violates not-null constraint",
   "invalid input value for enum application_status",
   "date/time field value out of range"}

\* C25: for every data-access operation and every storage-engine error
\* message m, the failure result returned to the caller does not contain m:
\* storage failures are reported as an opaque generic failure.
C25_OpaqueStorageFailure ==
  ( /\ last.op \in DataAccessOps
    /\ ~last.dal[1].success )
  => \A k \in 1..Len(last.dal[1].error.args) :
       last.dal[1].error.args[k] \notin EngineMessages

\* C26: every data-access operation ends by returning either
\* {success: true, data} or {success: false, error}; it never throws,
\* including when client construction, identity resolution or the storage
\* call throws.
C26_AlwaysReturnsResult ==
  last.op \in DataAccessOps =>
    /\ Len(last.dal) = 1
    /\ DOMAIN last.dal[1] = {"success", "error", "data"}
    /\ last.dal[1].success \in BOOLEAN
    /\ last.dal[1].success => last.dal[1].error = NoError
    /\ ~last.dal[1].success =>
         /\ last.dal[1].error.msg # ""
         /\ last.dal[1].data = <<>>
    /\ (Throws(last.auths[1]) \/ last.env.fault = StorageThrows) =>
         ~last.dal[1].success

\* the storage call of an update threw and the caller got a failure result
C26_Witness ==
  /\ last.op = "updateApplication"
  /\ last.env.fault = StorageThrows
  /\ last.stmts # <<>>
  /\ last.dal = <<Fail("An unexpected error occurred while updating the application")>>

\* C27: getApplicationById, updateApplication and deleteApplication, called
\* by an authenticated caller with an id that does not match the UUID
\* format, return the validation failure 'Invalid application ID' without
\* issuing any storage statement, and the store is unchanged; through PATCH
\* and DELETE this is reported as a client validation error (a 4xx answer),
\* not as a storage failure.
C27_InvalidIdIsClientError ==
  [][ ( /\ last'.op \in {"getApplicationById", "updateApplication", "deleteApplication",
                         "PATCH", "DELETE"}
        /\ last'.dal # <<>>
        /\ \A k \in 1..Len(last'.auths) : ~AuthFailed(last'.auths[k])
        /\ ~IsUuid(Trim(last'.id)) )
      => /\ last'.dal[1] = Fail(InvalidId)
         /\ last'.stmts = <<>>
         /\ applications' = applications
         /\ last'.op \in {"PATCH", "DELETE"} =>
              /\ last'.http[1].status \in 400..499
              /\ last'.http[1].error = [msg |-> InvalidId, args |-> <<>>] ]_vars

\* C28: if the session stops resolving to a user after a data-access
\* function's identity check has succeeded but before its storage statement
\* runs, that statement returns, inserts, modifies and deletes no row of any
\* user.
C28_LapsedSessionTouchesNothing ==
  [][ ( /\ last'.op \in DataAccessOps \cup EntryPoints
        /\ last'.stmts # <<>>
        /\ ~AuthFailed(last'.auths[Len(last'.auths)])
        /\ last'.env.uid = NULL )
      => /\ applications' = applications
         /\ last'.dal[1].data = <<>>
         /\ last'.http # <<>> => last'.http[1].data = <<>> ]_vars

\* getApplications passed its identity check, its statement ran with no
\* user resolved, and the caller has records
C28_Witness ==
  /\ last.op = "getApplications"
  /\ ~AuthFailed(last.auths[1])
  /\ last.stmts # <<>>
  /\ last.env.uid = NULL
  /\ \E r \in applications : r.user_id = last.sess

\* C29: each invocation of a data-access operation, direct or through an
\* entry point, issues at most one storage statement; when that statement
\* fails the operation returns failure and the statement is not reissued.
C29_AtMostOneStatement ==
  last.op \in DataAccessOps \cup EntryPoints =>
    /\ Len(last.stmts) <= 1
    /\ (last.stmts # <<>> /\ last.env.fault # NoFault) =>
         /\ Len(last.stmts) = 1
         /\ ~last.dal[1].success

\* the statement of getApplications failed
C29_Witness ==
  /\ last.op = "getApplications"
  /\ last.stmts # <<>>
  /\ last.env.fault \in EngineFaults
  /\ ~last.dal[1].success

====
